---------------------------- MODULE Spec2Model ----------------------------
(***************************************************************************)
(* Model of scope-ui: the OS3000 serial protocol driver                    *)
(* (src/src/os3000/mod.rs), the condition parsing and scaling              *)
(* (src/src/os3000/processing.rs) and the data capture thread with the     *)
(* foreground tick that feeds it (src/src/main.rs).                        *)
(*                                                                         *)
(* Bytes are integers 0..255, byte strings and Strings are sequences of    *)
(* bytes.  A Result is a string: "Ok", one of the OscilloscopeError kinds, *)
(* or "Panic" where the Rust code would panic.                             *)
(***************************************************************************)
EXTENDS Integers, Sequences, FiniteSets, TLC

VARIABLES
    cap,        \* the OscilloscopeCapture object: command_buffer, response_data, cond_string
    wire,       \* what the port has been given to transmit since it was opened
    last,       \* the latest call of the capture API: arguments, port behaviour, result
    config,     \* the CaptureConfig behind config_mutex
    lockHolder, \* who holds config_mutex
    ui,         \* the foreground's locals (do_capture, single_capture, mode_radiobutton, ...)
    uipc,       \* the foreground's position inside a UI tick: "begin" or "locked"
    status_q,   \* the status channel (status_tx -> status_rx)
    waveform_q, \* the result channel (waveform_tx -> waveform_rx)
    wpc,        \* the worker's position in 'thread_loop
    wconfig,    \* the worker's clone of the configuration
    werr,       \* the error get_waveform_data returned, "none" otherwise
    wunits,     \* (time_unit, voltage_unit) of get_waveform_data, once it has them
    wresp,      \* the worker's ScopeResponse under construction
    cycle       \* history of the running loop iteration: path, stage outcomes, messages sent

vars == <<cap, wire, last, config, lockHolder, ui, uipc, status_q, waveform_q,
          wpc, wconfig, werr, wunits, wresp, cycle>>

capVars == <<cap, wire, last>>
progVars == <<config, lockHolder, ui, uipc, status_q, waveform_q,
              wpc, wconfig, werr, wunits, wresp, cycle>>

-----------------------------------------------------------------------------
(* Bounds of the model *)

\* longest response stream offered to a test-connection read
MaxS1Len == 3
\* largest number of bytes a failing or partial write lets through
MaxWritten == 1
\* largest (end_address - start_address) the API driver asks send_ri for,
\* besides the capture cycle's own range
MaxSpan == 1
\* largest number of undelivered results
MaxQueue == 1
\* largest number of undelivered statuses
MaxStatusQueue == 2
\* longest raw sample vector, short of the ones of a capture
MaxRawLen == 2
\* longest text given to parse_unit
MaxTextLen == 4
\* longest source and largest step of an interpolation, short of a capture's
MaxSourceLen == 4
MaxStep == 2
\* longest sample vector given to the moving average
MaxAvgLen == 4
\* smallest target count of the claimed range of full-length results
MinCount == 1009
\* smallest target count of an interpolation that samples the spline at all
SmallCount == 9

-----------------------------------------------------------------------------
(* Program constants *)

CR == 13
CondFrameLen == 68
HeaderLen == 14
CaptureStart == 0
CaptureEnd == 1000
SliceEnd == 1000
ScaledLen == 1000

Channel == 1..4      \* DISPLAY1 = 1, DISPLAY2 = 2, SAVE1 = 3, SAVE2 = 4

-----------------------------------------------------------------------------
(* Byte-string helpers *)

Min(a, b) == IF a < b THEN a ELSE b

Fill(n, b) == [i \in 1..n |-> b]

Front(s) == SubSeq(s, 1, Len(s) - 1)

\* position of the first occurrence of byte b in s, 0 if there is none
FirstIndex(s, b) ==
    LET hits == {i \in 1..Len(s) : s[i] = b}
    IN  IF hits = {} THEN 0 ELSE CHOOSE i \in hits : \A j \in hits : i <= j

\* decimal digits of n (ASCII), most significant first
RECURSIVE Digits(_)
Digits(n) == IF n < 10 THEN <<48 + n>> ELSE Digits(n \div 10) \o <<48 + (n % 10)>>

\* format!("{:04}", n): zero-padded to at least four digits
Pad4(n) == LET d == Digits(n) IN Fill(4 - Min(4, Len(d)), 48) \o d

-----------------------------------------------------------------------------
(* The serial port.  A write is given an outcome w = [ok, n]; a read is     *)
(* given a stream = [bytes, end]: the bytes the instrument delivers and    *)
(* what follows them, "eof" (read returns 0) or "err" (time-out or I/O     *)
(* error).                                                                 *)

\* Write::write: one write call, which may be partial
port_write(buf, w) ==
    [ok |-> w.ok,
     tx |-> IF w.ok THEN SubSeq(buf, 1, IF w.n = 0 THEN Len(buf) ELSE Min(w.n, Len(buf)))
                    ELSE <<>>]

\* Write::write_all: everything is written, or an error after a prefix
port_write_all(buf, w) ==
    [ok |-> w.ok,
     tx |-> IF w.ok THEN buf ELSE SubSeq(buf, 1, Min(w.n, Len(buf) - 1))]

\* BufRead::read_until(0x0D, buf): the bytes up to and including the first
\* delimiter, or up to end of input; on an error the bytes already read stay
\* appended to the buffer
read_until(delim, stream) ==
    LET i == FirstIndex(stream.bytes, delim)
    IN  IF i > 0
        THEN [ok |-> TRUE, num |-> i, data |-> SubSeq(stream.bytes, 1, i)]
        ELSE IF stream.end = "eof"
             THEN [ok |-> TRUE, num |-> Len(stream.bytes), data |-> stream.bytes]
             ELSE [ok |-> FALSE, num |-> 0, data |-> stream.bytes]

\* String::from_utf8: well-formed UTF-8 (Unicode table 3-7)
IsCont(b) == b \in 128..191

RECURSIVE Utf8Valid(_)
Utf8Valid(s) ==
    IF s = <<>> THEN TRUE
    ELSE LET b == s[1]
             n == Len(s)
         IN  IF b < 128 THEN Utf8Valid(Tail(s))
             ELSE IF b \in 194..223
                  THEN n >= 2 /\ IsCont(s[2]) /\ Utf8Valid(SubSeq(s, 3, n))
             ELSE IF b \in 224..239
                  THEN /\ n >= 3
                       /\ IsCont(s[2]) /\ IsCont(s[3])
                       /\ (b = 224 => s[2] >= 160)
                       /\ (b = 237 => s[2] <= 159)
                       /\ Utf8Valid(SubSeq(s, 4, n))
             ELSE IF b \in 240..244
                  THEN /\ n >= 4
                       /\ IsCont(s[2]) /\ IsCont(s[3]) /\ IsCont(s[4])
                       /\ (b = 240 => s[2] >= 144)
                       /\ (b = 244 => s[2] <= 143)
                       /\ Utf8Valid(SubSeq(s, 5, n))
             ELSE FALSE

-----------------------------------------------------------------------------
(* Command encoding *)

\* format!("R{}({:04},{:04},B)\r", channel as u8, start_address, end_address)
make_ri_command(channel, start_address, end_address) ==
    <<82, 48 + channel, 40>> \o Pad4(start_address) \o <<44>>
        \o Pad4(end_address) \o <<44, 66, 41, CR>>

\* format!("Ro({})\r", channel as u8)
make_ro_command(channel) == <<82, 111, 40, 48 + channel, 41, CR>>

\* "S1\r"
S1Command == <<83, 49, CR>>

NewCapture == [command_buffer |-> <<>>, response_data |-> <<>>, cond_string |-> <<>>]

\* clear the command buffer, then push every byte of the command
make_command(c, command) ==
    LET cleared == [c EXCEPT !.command_buffer = <<>>]
    IN  [cleared EXCEPT !.command_buffer = cleared.command_buffer \o command]

-----------------------------------------------------------------------------
(* The capture API.  Each operator takes the object c, the call's          *)
(* arguments, the write outcome w and the response stream, and returns     *)
(* [cap: the object afterwards, result, tx: the bytes transmitted].        *)

\* eval_response with the byte compared before the length is looked at
eval_response_index_first(stream) ==
    LET r == read_until(CR, stream)
        response_buffer == r.data
    IN  IF r.ok
        THEN IF Len(response_buffer) < 1 THEN "panic"
             ELSE IF response_buffer[1] = 65 /\ r.num = 2 THEN "true" ELSE "false"
        ELSE "false"

\* eval_response: "true", "false", or "panic" for an index out of bounds
eval_response(stream) ==
    LET r == read_until(CR, stream)
        response_buffer == r.data
    IN  IF r.ok
        THEN IF r.num = 2
             THEN IF Len(response_buffer) < 1 THEN "panic"
                  ELSE IF response_buffer[1] = 65 THEN "true" ELSE "false"
             ELSE "false"
        ELSE "false"

send_s1(c, w, stream) ==
    LET c1 == make_command(c, S1Command)
        wr == port_write(c1.command_buffer, w)
        c2 == [c1 EXCEPT !.command_buffer = <<>>]
        ev == eval_response(stream)
    IN  IF wr.ok
        THEN [cap |-> c2, tx |-> wr.tx,
              result |-> CASE ev = "true" -> "Ok"
                           [] ev = "false" -> "S1Failure"
                           [] OTHER -> "Panic"]
        ELSE [cap |-> c2, tx |-> wr.tx, result |-> "S1Failure"]

\* send_ro without self.cond_string.clear()
send_ro_keeps_cond(c, channel, w, stream) ==
    LET c0 == [c EXCEPT !.command_buffer = <<>>]
        c1 == make_command(c0, make_ro_command(channel))
        wr == port_write_all(c1.command_buffer, w)
        r  == read_until(CR, stream)
        local_buffer == r.data
    IN  IF wr.ok
        THEN IF r.ok
             THEN IF r.num = CondFrameLen
                  THEN IF Utf8Valid(local_buffer)
                       THEN [cap |-> [c1 EXCEPT !.cond_string = local_buffer,
                                                !.command_buffer = <<>>],
                             tx |-> wr.tx, result |-> "Ok"]
                       ELSE [cap |-> c1, tx |-> wr.tx, result |-> "RoError"]
                  ELSE [cap |-> c1, tx |-> wr.tx, result |-> "S1Failure"]
             ELSE [cap |-> c1, tx |-> wr.tx, result |-> "RiError"]
        ELSE [cap |-> c1, tx |-> wr.tx, result |-> "RiError"]

send_ro(c, channel, w, stream) ==
    LET c0 == [c EXCEPT !.command_buffer = <<>>, !.cond_string = <<>>]
        c1 == make_command(c0, make_ro_command(channel))
        wr == port_write_all(c1.command_buffer, w)
        r  == read_until(CR, stream)
        local_buffer == r.data
    IN  IF wr.ok
        THEN IF r.ok
             THEN IF r.num = CondFrameLen
                  THEN IF Utf8Valid(local_buffer)
                       THEN [cap |-> [c1 EXCEPT !.cond_string = local_buffer,
                                                !.command_buffer = <<>>],
                             tx |-> wr.tx, result |-> "Ok"]
                       ELSE [cap |-> c1, tx |-> wr.tx, result |-> "RoError"]
                  ELSE [cap |-> c1, tx |-> wr.tx, result |-> "S1Failure"]
             ELSE [cap |-> c1, tx |-> wr.tx, result |-> "RiError"]
        ELSE [cap |-> c1, tx |-> wr.tx, result |-> "RiError"]

\* send_ri without self.response_data.pop()
send_ri_no_pop(c, channel, start_address, end_address, w, stream) ==
    LET c0 == [c EXCEPT !.command_buffer = <<>>]
        c1 == make_command(c0, make_ri_command(channel, start_address, end_address))
        wr == port_write_all(c1.command_buffer, w)
        r  == read_until(CR, stream)
        c2 == [c1 EXCEPT !.response_data = r.data]
    IN  IF wr.ok /\ r.ok /\ r.num = (end_address - start_address) + 15
        THEN [cap |-> [c2 EXCEPT !.command_buffer = <<>>], tx |-> wr.tx, result |-> "Ok"]
        ELSE [cap |-> IF wr.ok THEN c2 ELSE c1, tx |-> wr.tx, result |-> "RiError"]

send_ri(c, channel, start_address, end_address, w, stream) ==
    LET c0 == [c EXCEPT !.command_buffer = <<>>]
        c1 == make_command(c0, make_ri_command(channel, start_address, end_address))
        wr == port_write_all(c1.command_buffer, w)
        r  == read_until(CR, stream)
        c2 == [c1 EXCEPT !.response_data = r.data]
    IN  IF wr.ok
        THEN IF r.ok
             THEN IF r.num = (end_address - start_address) + 15
                  THEN [cap |-> [c2 EXCEPT !.command_buffer = <<>>,
                                           !.response_data = Front(c2.response_data)],
                        tx |-> wr.tx, result |-> "Ok"]
                  ELSE [cap |-> c2, tx |-> wr.tx, result |-> "RiError"]
             ELSE [cap |-> c2, tx |-> wr.tx, result |-> "RiError"]
        ELSE [cap |-> c1, tx |-> wr.tx, result |-> "RiError"]

-----------------------------------------------------------------------------
(* Condition parsing and scaling.  An f64 is kept exact: a ValueUnitPair    *)
(* holds value in hundredths (value = 100 * the parsed number), and a      *)
(* scaled sample is kept in units of 1/2500 (25 per division times the     *)
(* hundredths of the value); rounding of f64 is not modelled.              *)

IsDigit(b) == b \in 48..57

Max(S) == CHOOSE x \in S : \A y \in S : y <= x

\* the alternation (mV|V|uV|s|ms|us), in the order the pattern tries it
Units == << <<109, 86>>, <<86>>, <<117, 86>>, <<115>>, <<109, 115>>, <<117, 115>> >>

UnitMult(u) == CASE u \in {2, 4} -> 1
                 [] u \in {1, 5} -> 1000
                 [] u \in {3, 6} -> 1000000
                 [] OTHER -> 0

MatchesAt(t, i, p) == /\ i + Len(p) - 1 <= Len(t)
                      /\ \A k \in 1..Len(p) : t[i + k - 1] = p[k]

\* index of the unit token that starts at position i, 0 if none does
UnitAt(t, i) ==
    LET hits == {u \in 1..Len(Units) : MatchesAt(t, i, Units[u])}
    IN  IF hits = {} THEN 0 ELSE CHOOSE u \in hits : \A v \in hits : u <= v

DigitsAt(t, i, n) == /\ i + n - 1 <= Len(t)
                     /\ \A k \in 0..(n - 1) : IsDigit(t[i + k])

\* number of bytes of the character that starts with byte b (0: not a start)
CharLen(b) == CASE b < 128 -> 1
                [] b \in 194..223 -> 2
                [] b \in 224..239 -> 3
                [] b \in 240..244 -> 4
                [] OTHER -> 0

\* lengths n of [0-9]{1,3} at i that a unit token follows
Alt1Lens(t, i) == {n \in 1..3 : DigitsAt(t, i, n) /\ UnitAt(t, i + n) # 0}

\* lengths of 0.[0-9]{1,2} at i that a unit token follows ('.' is any
\* character but a line feed)
Alt2Lens(t, i) ==
    IF i + 1 <= Len(t) /\ t[i] = 48 /\ t[i + 1] # 10 /\ CharLen(t[i + 1]) > 0
    THEN LET l == CharLen(t[i + 1])
         IN  {1 + l + m : m \in {m \in 1..2 :
                    DigitsAt(t, i + 1 + l, m) /\ UnitAt(t, i + 1 + l + m) # 0}}
    ELSE {}

\* length of the Value group of the match that starts at i (leftmost-first:
\* the first alternative, greedy, before the second), 0 if none starts there
ValueLenAt(t, i) ==
    IF Alt1Lens(t, i) # {} THEN Max(Alt1Lens(t, i))
    ELSE IF Alt2Lens(t, i) # {} THEN Max(Alt2Lens(t, i))
    ELSE 0

RECURSIVE Num(_)
Num(d) == IF d = <<>> THEN 0 ELSE 10 * Num(Front(d)) + (d[Len(d)] - 48)

\* str::parse::<f64> of a Value group, in hundredths; -1 if it does not parse
ParseF64(v) ==
    IF \A k \in 1..Len(v) : IsDigit(v[k]) THEN 100 * Num(v)
    ELSE IF v[2] = 46
         THEN IF Len(v) = 3 THEN 10 * (v[3] - 48) ELSE Num(SubSeq(v, 3, 4))
    ELSE IF v[2] \in {101, 69} THEN 0
    ELSE -1

parse_unit(parse_string) ==
    LET t == parse_string
        starts == {i \in 1..Len(t) : ValueLenAt(t, i) > 0}
    IN  IF starts = {} THEN [ok |-> FALSE]
        ELSE LET i == CHOOSE a \in starts : \A b \in starts : a <= b
                 n == ValueLenAt(t, i)
                 value == ParseF64(SubSeq(t, i, i + n - 1))
                 u == UnitAt(t, i + n)
             IN  IF value >= 0
                 THEN [ok |-> TRUE, value |-> value, unit_mult |-> UnitMult(u),
                       unit_name |-> Units[u]]
                 ELSE [ok |-> FALSE]

\* str::split(",")
RECURSIVE Split(_, _)
Split(s, sep) ==
    LET i == FirstIndex(s, sep)
    IN  IF i = 0 THEN <<s>>
        ELSE <<SubSeq(s, 1, i - 1)>> \o Split(SubSeq(s, i + 1, Len(s)), sep)

NoUnit == [ok |-> FALSE]

\* result "Ok", "Err", or "Panic" (unwrap of a failed parse of field 7)
get_scale_units(condition_string) ==
    LET segments == Split(condition_string, 44)
    IN  IF Len(segments) < 12
        THEN [result |-> "Err", time_unit |-> NoUnit, voltage_unit |-> NoUnit]
        ELSE LET r3 == parse_unit(segments[4])
                 r7 == parse_unit(segments[8])
             IN  IF r3.ok
                 THEN IF r7.ok
                      THEN [result |-> "Ok", time_unit |-> r3, voltage_unit |-> r7]
                      ELSE [result |-> "Panic", time_unit |-> r3, voltage_unit |-> NoUnit]
                 ELSE [result |-> "Err", time_unit |-> NoUnit, voltage_unit |-> NoUnit]

\* the destination holds ScaledLen zeros; writing past it panics (ok = FALSE)
scale_waveform_data(waveform_data_raw, voltage_per_division, scale_factor) ==
    IF Len(waveform_data_raw) > ScaledLen THEN [ok |-> FALSE, data |-> <<>>]
    ELSE [ok |-> TRUE,
          data |-> [i \in 1..ScaledLen |->
            IF i <= Len(waveform_data_raw)
            THEN (0 - (waveform_data_raw[i] - 128)) * voltage_per_division * scale_factor
            ELSE 0]]

unit_scale(samples, voltage_unit) ==
    [i \in DOMAIN samples |-> samples[i] * voltage_unit.unit_mult]

-----------------------------------------------------------------------------
(* Interpolation.  A time is kept in hundredths of time_per_divison: the    *)
(* key of source index i has t = time_per_divison * i, and a query time is *)
(* the fraction num / den.  What a kernel returns is kept as the sequence  *)
(* of query indices whose spline sample stands at each position; the       *)
(* sampled values themselves, and the rounding of f64, are not modelled.   *)

\* ((time_per_divison / 100.0) * x as f64) * scale_factor, in hundredths
scale_time(x, time_per_divison, scale_factor) == time_per_divison * x * scale_factor

\* the indices (lo..hi-1).step_by(stride), in order
StepBy(lo, hi, stride) ==
    IF hi <= lo THEN <<>>
    ELSE [j \in 1..(((hi - lo - 1) \div stride) + 1) |-> lo + (j - 1) * stride]

\* the keys pushed by a kernel: source index src, time t
Keys(indices, shift, time_per_divison) ==
    [j \in DOMAIN indices |->
        [src |-> indices[j], t |-> scale_time(indices[j] + shift, time_per_divison, 1)]]

\* splines: the index (from 0) of the key at or below the time num / den
\* that has a key after it, -1 if there is none (the lowest one among keys
\* of equal time)
search_lower_cp(keys, num, den) ==
    LET at == {i \in 0..(Len(keys) - 2) :
                  \/ keys[i + 1].t * den = num
                  \/ keys[i + 1].t * den < num /\ num < keys[i + 2].t * den}
    IN  IF Len(keys) < 2 \/ at = {} THEN -1
        ELSE CHOOSE i \in at : \A k \in at : i <= k

\* splines: Spline::sample is Some; Catmull-Rom needs a key before the lower
\* key and two after it
sample(keys, interpolation, num, den) ==
    LET i == search_lower_cp(keys, num, den)
    IN  /\ i >= 0
        /\ interpolation = "CatmullRom" => ~(i = 0 \/ i >= Len(keys) - 2)

\* splines: Spline::clamped_sample is Some
clamped_sample(keys, interpolation, num, den) ==
    /\ keys # <<>>
    /\ \/ sample(keys, interpolation, num, den)
       \/ num <= keys[1].t * den
       \/ num >= keys[Len(keys)].t * den

\* the query indices lo..hi whose sample is Some, in order
RECURSIVE Sampled(_, _, _, _, _, _)
Sampled(keys, interpolation, num_samples, time_per_divison, lo, hi) ==
    IF lo > hi THEN <<>>
    ELSE IF lo = hi
    THEN IF clamped_sample(keys, interpolation,
                           scale_time(lo, time_per_divison, 1) * 1000, num_samples)
         THEN <<lo>> ELSE <<>>
    ELSE LET mid == (lo + hi) \div 2
         IN  Sampled(keys, interpolation, num_samples, time_per_divison, lo, mid)
             \o Sampled(keys, interpolation, num_samples, time_per_divison, mid + 1, hi)

\* the part the five kernels share: sample at 4..num_samples-4, then repeat
\* the last value up to num_samples; new_values.last().unwrap() panics
\* (ok = FALSE) when nothing was sampled.  The keys the spline was made of
\* are kept with the result
Resample(keys, interpolation, num_samples, time_per_divison) ==
    LET new_values == Sampled(keys, interpolation, num_samples, time_per_divison,
                              4, num_samples - 5)
    IN  IF num_samples > Len(new_values)
        THEN IF new_values = <<>> THEN [ok |-> FALSE, data |-> <<>>, keys |-> keys]
             ELSE [ok |-> TRUE, keys |-> keys,
                   data |-> new_values
                            \o Fill(num_samples - Len(new_values),
                                    new_values[Len(new_values)])]
        ELSE [ok |-> TRUE, data |-> new_values, keys |-> keys]

cosine_interpolate_samples(samples, num_samples, time_per_divison, step) ==
    Resample(Keys(StepBy(0, Len(samples), step), 1, time_per_divison),
             "Cosine", num_samples, time_per_divison)

catmull_rom_interpolate_samples(samples, num_samples, time_per_divison, step) ==
    Resample(Keys(StepBy(0, Len(samples), step), 1, time_per_divison),
             "CatmullRom", num_samples, time_per_divison)

bezier2_interpolate_samples(samples, num_samples, time_per_divison, step) ==
    Resample(Keys(StepBy(0, Len(samples) - 1, step), 0, time_per_divison),
             "Bezier", num_samples, time_per_divison)

bezier_interpolate_samples(samples, num_samples, time_per_divison, step) ==
    Resample(Keys(StepBy(0, Len(samples) - 1, step + 1), 0, time_per_divison),
             "Bezier", num_samples, time_per_divison)

linear_interpolate_samples(samples, num_samples, time_per_divison, step) ==
    Resample(Keys(StepBy(0, Len(samples), step), 0, time_per_divison),
             "Linear", num_samples, time_per_divison)

\* the sum after iteration i (from 0) of the loop of moving_average_filter
RECURSIVE RunningSum(_, _, _)
RunningSum(samples, window_size, i) ==
    LET before == IF i = 0 THEN 0 ELSE RunningSum(samples, window_size, i - 1)
        dropped == IF i >= window_size THEN samples[i - window_size + 1] ELSE 0
        added == IF i + window_size <= Len(samples) THEN samples[i + 1] ELSE 0
    IN  before - dropped + added

\* insert a copy of the first element in front and push a copy of the last,
\* while the sequence is shorter than n
RECURSIVE PadBothEnds(_, _)
PadBothEnds(f, n) ==
    IF Len(f) < n THEN PadBothEnds(<<f[1]>> \o f \o <<f[Len(f)]>>, n) ELSE f

\* an element s of the result stands for s / window_size; filtered_samples[0]
\* panics (ok = FALSE) when nothing was emitted
moving_average_filter(samples, window_size) ==
    LET emitted == [j \in 1..(Len(samples) - (window_size - 1)) |->
                        RunningSum(samples, window_size, j + window_size - 2)]
    IN  IF Len(emitted) < Len(samples) /\ emitted = <<>>
        THEN [ok |-> FALSE, data |-> <<>>]
        ELSE [ok |-> TRUE, data |-> PadBothEnds(emitted, Len(samples))]

-----------------------------------------------------------------------------
(* What the port can do: write outcomes and response streams *)

\* outcomes of one write call: Ok(all), Ok(n) for a partial write, Err
WriteOnce == {[ok |-> TRUE, n |-> k] : k \in 0..MaxWritten} \cup {[ok |-> FALSE, n |-> 0]}

\* outcomes of write_all: Ok, or Err after n bytes went out
WriteAll == {[ok |-> TRUE, n |-> 0]} \cup {[ok |-> FALSE, n |-> k] : k \in 0..MaxWritten}

Ends == {"eof", "err"}

RECURSIVE SeqsUpTo(_, _)
SeqsUpTo(A, n) ==
    IF n = 0 THEN {<<>>}
    ELSE LET S == SeqsUpTo(A, n - 1) IN S \cup {Append(q, a) : q \in S, a \in A}

\* the port is not read after a failed write
NoStream == [bytes |-> <<>>, end |-> "err"]

StreamsAfter(w, streams) == IF w.ok THEN streams ELSE {NoStream}

\* every stream of at most MaxS1Len bytes out of 'A', 'B', line feed and the
\* terminator that a read up to the terminator tells apart: nothing follows
\* the terminator, and what follows the last byte matters only without one
S1Streams ==
    {[bytes |-> b, end |-> e] : b \in SeqsUpTo({65, 66, 10}, MaxS1Len), e \in Ends}
    \cup {[bytes |-> Append(b, CR), end |-> "err"] :
            b \in SeqsUpTo({65, 66, 10}, MaxS1Len - 1)}

\* a frame F that ends with the terminator, and the ways it goes wrong: cut
\* short, the terminator lost, a byte too many, nothing at all
Variants(F) ==
    {[bytes |-> F, end |-> "err"],
     [bytes |-> Front(F), end |-> "eof"],
     [bytes |-> Front(F), end |-> "err"],
     [bytes |-> Front(F) \o <<32>>, end |-> "eof"],
     [bytes |-> Front(F) \o <<32, CR>>, end |-> "err"],
     [bytes |-> <<>>, end |-> "eof"],
     [bytes |-> <<>>, end |-> "err"]}

RECURSIVE Join(_, _)
Join(fields, sep) ==
    IF Len(fields) = 0 THEN <<>>
    ELSE IF Len(fields) = 1 THEN fields[1]
    ELSE fields[1] \o <<sep>> \o Join(Tail(fields), sep)

\* a condition record of nf comma-separated fields, f3 at index 3 and f7 at
\* index 7, blank-padded to the frame length, terminator last
CondFrame(f3, f7, nf) ==
    LET fields == [i \in 1..nf |-> IF i = 4 THEN f3 ELSE IF i = 8 THEN f7 ELSE <<>>]
        body == Join(fields, 44)
    IN  body \o Fill((CondFrameLen - 1) - Len(body), 32) \o <<CR>>

\* "1ms" and "5mV"
TimeToken == <<49, 109, 115>>
VoltToken == <<53, 109, 86>>

\* the same frame with bytes that are not UTF-8, and with a two-byte character
NotUtf8(F) == [F EXCEPT ![1] = 255]
TwoByteChar(F) == [F EXCEPT ![CondFrameLen - 2] = 195, ![CondFrameLen - 1] = 169]

RoStreamsOf(frames) ==
    UNION {Variants(F) \cup {[bytes |-> NotUtf8(F), end |-> "err"],
                             [bytes |-> TwoByteChar(F), end |-> "err"]} : F \in frames}

\* a waveform frame: header, (end - start) sample bytes b, terminator
RiFrame(span, b) == Fill(HeaderLen, 35) \o Fill(span, b) \o <<CR>>

RiStreamsOf(span, sampleBytes) == UNION {Variants(RiFrame(span, b)) : b \in sampleBytes}

-----------------------------------------------------------------------------
(* The capture API driven directly: one OscilloscopeCapture object, one    *)
(* of its commands called again and again with any arguments and any       *)
(* behaviour of the port (SpecS1, SpecRo, SpecRi).                         *)

NoCall == [op |-> "none"]

DriverRanges == {<<a, MaxSpan>> : a \in 0..MaxSpan} \cup {<<CaptureStart, CaptureEnd>>}

DriverRoStreams == RoStreamsOf({CondFrame(TimeToken, VoltToken, 13)})

DriverSampleBytes == {128, CR}

CallS1 ==
    \E w \in WriteOnce :
      \E stream \in StreamsAfter(w, S1Streams) :
        LET r == send_s1(cap, w, stream)
        IN  /\ cap' = r.cap
            /\ wire' = <<[kind |-> "S1", bytes |-> r.tx]>>
            /\ last' = [op |-> "s1", w |-> w, stream |-> stream, result |-> r.result,
                        hadCond |-> cap.cond_string # <<>>,
                        hadData |-> cap.response_data # <<>>,
                        hadCommand |-> cap.command_buffer # <<>>]
            /\ UNCHANGED progVars

CallRo ==
    \E channel \in Channel, w \in WriteAll :
      \E stream \in StreamsAfter(w, DriverRoStreams) :
        LET r == send_ro(cap, channel, w, stream)
        IN  /\ cap' = r.cap
            /\ wire' = <<[kind |-> "Ro", bytes |-> r.tx]>>
            /\ last' = [op |-> "ro", channel |-> channel, w |-> w, stream |-> stream,
                        result |-> r.result,
                        hadCond |-> cap.cond_string # <<>>,
                        hadData |-> cap.response_data # <<>>,
                        hadCommand |-> cap.command_buffer # <<>>]
            /\ UNCHANGED progVars

CallRi ==
    \E channel \in Channel, range \in DriverRanges, w \in WriteAll :
      \E stream \in StreamsAfter(w, RiStreamsOf(range[2] - range[1], DriverSampleBytes)) :
        LET r == send_ri(cap, channel, range[1], range[2], w, stream)
        IN  /\ cap' = r.cap
            /\ wire' = <<[kind |-> "Ri", bytes |-> r.tx]>>
            /\ last' = [op |-> "ri", channel |-> channel, start_address |-> range[1],
                        end_address |-> range[2], w |-> w, stream |-> stream,
                        result |-> r.result,
                        hadCond |-> cap.cond_string # <<>>,
                        hadData |-> cap.response_data # <<>>,
                        hadCommand |-> cap.command_buffer # <<>>]
            /\ UNCHANGED progVars

-----------------------------------------------------------------------------
(* The program: main.rs.  port_name, baudrate and two_stopbits only reach   *)
(* the opening of the port, whose outcome is an input of the model, and    *)
(* are left out of CaptureConfig.                                          *)

DefaultPair == [value |-> 0, unit_mult |-> 0, unit_name |-> <<>>]

Pair(r) == [value |-> r.value, unit_mult |-> r.unit_mult, unit_name |-> r.unit_name]

\* the empty response object the worker creates
EmptyResponse ==
    [s1_result |-> FALSE, capture_conditions |-> "", waveform_data |-> <<>>,
     time_per_div |-> DefaultPair, voltage_per_div |-> DefaultPair]

InitConfig ==
    [do_capture |-> FALSE, open_port |-> FALSE, do_ri |-> TRUE, do_s1 |-> FALSE,
     do_ro |-> FALSE, channel |-> 1]

InitUi ==
    [do_capture |-> FALSE, single_capture |-> FALSE, mode_radiobutton |-> 2,
     channel |-> 1, status_string |-> "Idle", have_waveform |-> FALSE]

NoUnits == [result |-> "none", time_unit |-> NoUnit, voltage_unit |-> NoUnit]

NoCycle == [kind |-> "none", stages |-> <<>>, sent |-> <<>>]

Init ==
    /\ cap = NewCapture
    /\ wire = <<>>
    /\ last = NoCall
    /\ config = InitConfig
    /\ lockHolder = "none"
    /\ ui = InitUi
    /\ uipc = "begin"
    /\ status_q = <<>>
    /\ waveform_q = <<>>
    /\ wpc = "top"
    /\ wconfig = InitConfig
    /\ werr = "none"
    /\ wunits = NoUnits
    /\ wresp = EmptyResponse
    /\ cycle = NoCycle

SpecS1 == Init /\ [][CallS1]_vars

SpecRo == Init /\ [][CallRo]_vars

SpecRi == Init /\ [][CallRi]_vars

-----------------------------------------------------------------------------
(* The functions of processing.rs called directly, each with arguments     *)
(* drawn from a bounded set (SpecProcessing).  They keep no state, so one  *)
(* call is made per behaviour.                                             *)

\* raw sample vectors: the short ones, the payload of a capture, and vectors
\* as long as and longer than the destination
ScaleInputs ==
    SeqsUpTo({0, 128, 255}, MaxRawLen)
    \cup {Fill(SliceEnd - HeaderLen, 128), Fill(ScaledLen, 128), Fill(ScaledLen + 1, 128)}

\* voltage_per_division, in hundredths: 1.0 and 5.0
ScaleVolts == {100, 500}

CallScale ==
    \E raw \in ScaleInputs, v \in ScaleVolts :
        /\ last = NoCall
        /\ last' = [op |-> "scale", raw |-> raw, voltage_per_division |-> v,
                    scale_factor |-> 1, result |-> scale_waveform_data(raw, v, 1)]
        /\ UNCHANGED <<cap, wire, progVars>>

\* '0', '5', '.', 'x', 'e', 'm', 'V', 's', 'u'
TextAlphabet == {48, 53, 46, 120, 101, 109, 86, 115, 117}

\* every text of at most MaxTextLen of these characters, and "1234V", "0155V",
\* "0\u{e9}5V", "12ms,"
ParseTexts ==
    SeqsUpTo(TextAlphabet, MaxTextLen)
    \cup {<<49, 50, 51, 52, 86>>, <<48, 49, 53, 53, 86>>, <<48, 195, 169, 53, 86>>,
          <<49, 50, 109, 115, 44>>}

CallParseUnit ==
    \E text \in ParseTexts :
        /\ last = NoCall
        /\ last' = [op |-> "parse_unit", text |-> text, result |-> parse_unit(text)]
        /\ UNCHANGED <<cap, wire, progVars>>

\* condition strings of 11, 12 and 13 fields whose fields 3 and 7 hold a
\* unit, nothing, or text without a unit
ConditionStrings ==
    {CondFrame(f3, f7, nf) : f3 \in {TimeToken, <<>>, <<120>>},
                             f7 \in {VoltToken, <<>>, <<120>>}, nf \in {11, 12, 13}}

CallGetScaleUnits ==
    \E condition_string \in ConditionStrings :
        /\ last = NoCall
        /\ last' = [op |-> "get_scale_units", condition_string |-> condition_string,
                    result |-> get_scale_units(condition_string)]
        /\ UNCHANGED <<cap, wire, progVars>>

Kernels == {"linear", "cosine", "catmull_rom", "bezier", "bezier2"}

Interpolate(kernel, samples, num_samples, time_per_divison, step) ==
    CASE kernel = "linear" ->
            linear_interpolate_samples(samples, num_samples, time_per_divison, step)
      [] kernel = "cosine" ->
            cosine_interpolate_samples(samples, num_samples, time_per_divison, step)
      [] kernel = "catmull_rom" ->
            catmull_rom_interpolate_samples(samples, num_samples, time_per_divison, step)
      [] kernel = "bezier" ->
            bezier_interpolate_samples(samples, num_samples, time_per_divison, step)
      [] kernel = "bezier2" ->
            bezier2_interpolate_samples(samples, num_samples, time_per_divison, step)

\* target counts: the smallest ones that leave a query, and the smallest ones
\* of the sliders' range; time_per_divison: 0.0 (before the first capture)
\* and 1.0
InterpCounts == {SmallCount, SmallCount + 3, MinCount, MinCount + 1}
InterpTimes == {0, 1}

\* source length and step: short sources, and the 1000 samples of a capture
\* thinned out to two or three keys
InterpSources ==
    {<<n, st>> : n \in 2..MaxSourceLen, st \in 1..MaxStep}
    \cup {<<ScaledLen, ScaledLen - 1>>, <<ScaledLen, ScaledLen \div 2>>}

CallInterpolate ==
    \E kernel \in Kernels, src \in InterpSources, n \in InterpCounts, t \in InterpTimes :
        /\ last = NoCall
        /\ last' = [op |-> "interpolate", kernel |-> kernel, len |-> src[1],
                    step |-> src[2], num_samples |-> n, time_per_divison |-> t,
                    result |-> Interpolate(kernel, Fill(src[1], 0), n, t, src[2])]
        /\ UNCHANGED <<cap, wire, progVars>>

\* sample vectors of at most MaxAvgLen values out of 0, 1, 3
AvgInputs == SeqsUpTo({0, 1, 3}, MaxAvgLen) \ {<<>>}

CallMovingAverage ==
    \E samples \in AvgInputs :
        \E window_size \in 1..Len(samples) :
            /\ last = NoCall
        /\ last' = [op |-> "moving_average", samples |-> samples,
                        window_size |-> window_size,
                        result |-> moving_average_filter(samples, window_size)]
            /\ UNCHANGED <<cap, wire, progVars>>

NextProcessing ==
    \/ CallScale \/ CallParseUnit \/ CallGetScaleUnits
    \/ CallInterpolate \/ CallMovingAverage

SpecProcessing == Init /\ [][NextProcessing]_vars

-----------------------------------------------------------------------------
(* The data capture thread *)

\* status_tx.send / waveform_tx.send, with the history of the iteration
SendStatus(st) ==
    /\ Len(status_q) < MaxStatusQueue
    /\ status_q' = Append(status_q, st)

SendResponse(resp) ==
    /\ Len(waveform_q) < MaxQueue
    /\ waveform_q' = Append(waveform_q, resp)

Sent(c, chan, msg) == [c EXCEPT !.sent = Append(@, [chan |-> chan, msg |-> msg])]

Staged(c, stage, result) ==
    [c EXCEPT !.stages = Append(@, [stage |-> stage, result |-> result])]

\* the end of a loop iteration: the capture object and its port are dropped.
\* config, response and the error are locals that the next iteration assigns
\* before it reads them; the model forgets them here
BackToTop ==
    /\ wpc' = "top"
    /\ cap' = NewCapture
    /\ wire' = <<>>
    /\ wconfig' = InitConfig
    /\ werr' = "none"
    /\ wunits' = NoUnits
    /\ wresp' = EmptyResponse
    /\ cycle' = NoCycle

foregroundVars == <<config, lockHolder, ui, uipc>>

\* try_lock succeeded: clone the configuration through the guard
W_Snapshot ==
    /\ wpc = "top"
    /\ lockHolder = "none"
    /\ lockHolder' = "worker"
    /\ wconfig' = config
    /\ wpc' = "cloned"
    /\ UNCHANGED <<capVars, config, ui, uipc, status_q, waveform_q, werr, wunits, wresp, cycle>>

\* the guard kept past the if let that made it
W_Unlock_keeps_guard ==
    /\ wpc = "cloned"
    /\ lockHolder = "worker"
    /\ wpc' = "check"
    /\ UNCHANGED <<capVars, foregroundVars, status_q, waveform_q, wconfig, werr, wunits, wresp, cycle>>

\* the end of the if let: the guard, a temporary of its condition, is dropped
W_Unlock ==
    /\ wpc = "cloned"
    /\ lockHolder = "worker"
    /\ lockHolder' = "none"
    /\ wpc' = "check"
    /\ UNCHANGED <<capVars, config, ui, uipc, status_q, waveform_q, wconfig, werr, wunits, wresp, cycle>>

\* try_lock failed: continue 'thread_loop
W_Spin ==
    /\ wpc = "top"
    /\ lockHolder # "none"
    /\ UNCHANGED vars

\* nothing to do: sleep, report Idle, continue
W_Nap ==
    /\ wpc = "check"
    /\ ~wconfig.open_port
    /\ SendStatus("Idle")
    /\ BackToTop
    /\ UNCHANGED <<last, foregroundVars, waveform_q>>

\* OscilloscopeCapture::new: open_native().expect("Failed to open port")
W_OpenPort ==
    /\ wpc = "check"
    /\ wconfig.open_port
    /\ \E opened \in BOOLEAN :
        /\ wpc' = IF opened THEN "dispatch" ELSE "panicked"
        /\ cycle' = Staged(cycle, "open", IF opened THEN "Ok" ELSE "Panic")
    /\ cap' = NewCapture
    /\ wire' = <<>>
    /\ UNCHANGED <<last, foregroundVars, status_q, waveform_q, wconfig, werr, wunits, wresp>>

\* the dispatch reading the shared configuration in place of the clone
W_Dispatch_reads_shared ==
    /\ wpc = "dispatch"
    /\ IF config.do_capture /\ config.do_s1
       THEN /\ wpc' = "test"
            /\ cycle' = [cycle EXCEPT !.kind = "test"]
            /\ UNCHANGED <<cap, wire, status_q, wconfig, werr, wunits, wresp>>
       ELSE IF config.do_capture /\ config.do_ri
       THEN /\ SendStatus("Ri")
            /\ wpc' = "wf_s1"
            /\ cycle' = Sent([cycle EXCEPT !.kind = "wave"], "status", "Ri")
            /\ UNCHANGED <<cap, wire, wconfig, werr, wunits, wresp>>
       ELSE IF config.do_capture /\ config.do_ro
       THEN /\ wpc' = "cond"
            /\ cycle' = [cycle EXCEPT !.kind = "cond"]
            /\ UNCHANGED <<cap, wire, status_q, wconfig, werr, wunits, wresp>>
       ELSE BackToTop /\ UNCHANGED status_q
    /\ UNCHANGED <<last, foregroundVars, waveform_q>>

\* handle commands: the branch the clone selects
W_Dispatch ==
    /\ wpc = "dispatch"
    /\ IF wconfig.do_capture /\ wconfig.do_s1
       THEN /\ wpc' = "test"
            /\ cycle' = [cycle EXCEPT !.kind = "test"]
            /\ UNCHANGED <<cap, wire, status_q, wconfig, werr, wunits, wresp>>
       ELSE IF wconfig.do_capture /\ wconfig.do_ri
       THEN /\ SendStatus("Ri")
            /\ wpc' = "wf_s1"
            /\ cycle' = Sent([cycle EXCEPT !.kind = "wave"], "status", "Ri")
            /\ UNCHANGED <<cap, wire, wconfig, werr, wunits, wresp>>
       ELSE IF wconfig.do_capture /\ wconfig.do_ro
       THEN /\ wpc' = "cond"
            /\ cycle' = [cycle EXCEPT !.kind = "cond"]
            /\ UNCHANGED <<cap, wire, status_q, wconfig, werr, wunits, wresp>>
       ELSE BackToTop /\ UNCHANGED status_q
    /\ UNCHANGED <<last, foregroundVars, waveform_q>>

\* what the instrument answers to S1 in a command cycle: "A\r", "B\r",
\* "AB\r", "\r", and "A" or nothing at all before the read ends
WorkerS1Streams ==
    {[bytes |-> b, end |-> "err"] : b \in {<<65, CR>>, <<66, CR>>, <<65, 66, CR>>, <<CR>>}}
    \cup {[bytes |-> b, end |-> e] : b \in {<<65>>, <<>>}, e \in Ends}

\* what the instrument may answer during a loop iteration of the worker
WorkerRoStreams ==
    RoStreamsOf({CondFrame(TimeToken, VoltToken, 13), CondFrame(TimeToken, <<>>, 13),
                 CondFrame(<<>>, VoltToken, 13), CondFrame(TimeToken, VoltToken, 11)})

WorkerSampleBytes == {127, CR}

WorkerRiStreams == RiStreamsOf(CaptureEnd - CaptureStart, WorkerSampleBytes)

Written(kind, tx) == Append(wire, [kind |-> kind, bytes |-> tx])

\* &v[from..to]: panics (ok = FALSE) when the range does not lie inside v
Slice(v, from, to) ==
    IF from > to \/ to > Len(v) THEN [ok |-> FALSE, data |-> <<>>]
    ELSE [ok |-> TRUE, data |-> SubSeq(v, from + 1, to)]

\* the worker's match on the error of get_waveform_data
StatusOf(e) == CASE e = "S1Failure" -> "S1Fail"
                 [] e = "RiError" -> "RiFail"
                 [] e = "RoError" -> "RoFail"
                 [] e = "WriteError" -> "UnknownError"

(* Test path: do_s1 *)

W_TestS1 ==
    /\ wpc = "test"
    /\ \E w \in WriteOnce :
        \E stream \in StreamsAfter(w, WorkerS1Streams) :
          LET r == send_s1(cap, w, stream)
          IN  IF r.result = "Ok"
              THEN BackToTop
              ELSE /\ wresp' = [wresp EXCEPT !.s1_result = FALSE]
                   /\ wpc' = IF r.result = "Panic" THEN "panicked" ELSE "test_status"
                   /\ cap' = r.cap
                   /\ wire' = Written("S1", r.tx)
                   /\ cycle' = Staged(cycle, "S1", r.result)
                   /\ UNCHANGED <<wconfig, werr, wunits>>
    /\ UNCHANGED <<last, foregroundVars, status_q, waveform_q>>

W_TestFailStatus ==
    /\ wpc = "test_status"
    /\ SendStatus("S1Fail")
    /\ cycle' = Sent(cycle, "status", "S1Fail")
    /\ wpc' = "test_response"
    /\ UNCHANGED <<capVars, foregroundVars, waveform_q, wconfig, werr, wunits, wresp>>

W_TestFailResponse ==
    /\ wpc = "test_response"
    /\ SendResponse(wresp)
    /\ BackToTop
    /\ UNCHANGED <<last, foregroundVars, status_q>>

(* Waveform path: do_ri, get_waveform_data stage by stage *)

\* W_WfS1 without the ? after send_s1: the cycle goes on after a failure
W_WfS1_no_abort ==
    /\ wpc = "wf_s1"
    /\ \E w \in WriteOnce :
        \E stream \in StreamsAfter(w, WorkerS1Streams) :
          LET r == send_s1(cap, w, stream)
          IN  /\ cap' = r.cap
              /\ wire' = Written("S1", r.tx)
              /\ cycle' = Staged(cycle, "S1", r.result)
              /\ werr' = "none"
              /\ wpc' = IF r.result = "Panic" THEN "panicked" ELSE "wf_ro"
    /\ UNCHANGED <<last, foregroundVars, status_q, waveform_q, wconfig, wunits, wresp>>

W_WfS1 ==
    /\ wpc = "wf_s1"
    /\ \E w \in WriteOnce :
        \E stream \in StreamsAfter(w, WorkerS1Streams) :
          LET r == send_s1(cap, w, stream)
          IN  /\ cap' = r.cap
              /\ wire' = Written("S1", r.tx)
              /\ cycle' = Staged(cycle, "S1", r.result)
              /\ werr' = IF r.result \in {"Ok", "Panic"} THEN "none" ELSE r.result
              /\ wpc' = CASE r.result = "Ok" -> "wf_ro"
                          [] r.result = "Panic" -> "panicked"
                          [] OTHER -> "wf_err"
    /\ UNCHANGED <<last, foregroundVars, status_q, waveform_q, wconfig, wunits, wresp>>

W_WfRo ==
    /\ wpc = "wf_ro"
    /\ \E w \in WriteAll :
        \E stream \in StreamsAfter(w, WorkerRoStreams) :
          LET r == send_ro(cap, wconfig.channel, w, stream)
          IN  /\ cap' = r.cap
              /\ wire' = Written("Ro", r.tx)
              /\ cycle' = Staged(cycle, "Ro", r.result)
              /\ werr' = IF r.result = "Ok" THEN "none" ELSE r.result
              /\ wpc' = IF r.result = "Ok" THEN "wf_units" ELSE "wf_err"
    /\ UNCHANGED <<last, foregroundVars, status_q, waveform_q, wconfig, wunits, wresp>>

W_WfUnits ==
    /\ wpc = "wf_units"
    /\ wunits' = get_scale_units(cap.cond_string)
    /\ cycle' = Staged(cycle, "units", wunits'.result)
    /\ werr' = IF wunits'.result = "Err" THEN "RoError" ELSE "none"
    /\ wpc' = CASE wunits'.result = "Ok" -> "wf_ri"
                [] wunits'.result = "Panic" -> "panicked"
                [] OTHER -> "wf_err"
    /\ UNCHANGED <<capVars, foregroundVars, status_q, waveform_q, wconfig, wresp>>

\* send_ri(channel, 0, 1000)
W_WfRi ==
    /\ wpc = "wf_ri"
    /\ \E w \in WriteAll :
        \E stream \in StreamsAfter(w, WorkerRiStreams) :
          LET r == send_ri(cap, wconfig.channel, CaptureStart, CaptureEnd, w, stream)
          IN  /\ cap' = r.cap
              /\ wire' = Written("Ri", r.tx)
              /\ cycle' = Staged(cycle, "Ri", r.result)
    /\ werr' = LET res == cycle'.stages[Len(cycle'.stages)].result
               IN  IF res = "Ok" THEN "none" ELSE res
    /\ wpc' = IF werr' = "none" THEN "wf_scale" ELSE "wf_err"
    /\ UNCHANGED <<last, foregroundVars, status_q, waveform_q, wconfig, wunits, wresp>>

\* the payload &response_data[14..1000], scaled, then scaled by the unit
W_WfScale ==
    /\ wpc = "wf_scale"
    /\ LET raw == Slice(cap.response_data, HeaderLen, SliceEnd)
           scaled == scale_waveform_data(raw.data, wunits.voltage_unit.value, 1)
       IN  IF raw.ok /\ scaled.ok
           THEN /\ cycle' = Staged(cycle, "scale", "Ok")
                /\ wresp' = [wresp EXCEPT
                        !.voltage_per_div = Pair(wunits.voltage_unit),
                        !.time_per_div = Pair(wunits.time_unit),
                        !.waveform_data = unit_scale(scaled.data, wunits.voltage_unit)]
                /\ wpc' = "wf_ok"
           ELSE /\ cycle' = Staged(cycle, "scale", "Panic")
                /\ wpc' = "panicked"
                /\ UNCHANGED wresp
    /\ UNCHANGED <<capVars, foregroundVars, status_q, waveform_q, wconfig, werr, wunits>>

W_WfSuccessStatus ==
    /\ wpc = "wf_ok"
    /\ SendStatus("RiSuccess")
    /\ cycle' = Sent(cycle, "status", "RiSuccess")
    /\ wpc' = "wf_send"
    /\ UNCHANGED <<capVars, foregroundVars, waveform_q, wconfig, werr, wunits, wresp>>

W_WfSendResponse ==
    /\ wpc = "wf_send"
    /\ SendResponse(wresp)
    /\ BackToTop
    /\ UNCHANGED <<last, foregroundVars, status_q>>

\* W_WfBackoff without continue 'thread_loop: control falls through to
\* waveform_tx.send(response)
W_WfBackoff_no_continue ==
    /\ wpc = "wf_err"
    /\ SendStatus(StatusOf(werr))
    /\ cycle' = Sent(cycle, "status", StatusOf(werr))
    /\ wpc' = "wf_send"
    /\ UNCHANGED <<capVars, foregroundVars, waveform_q, wconfig, werr, wunits, wresp>>

\* Err(e): map the error, sleep, report, continue
W_WfBackoff ==
    /\ wpc = "wf_err"
    /\ SendStatus(StatusOf(werr))
    /\ BackToTop
    /\ UNCHANGED <<last, foregroundVars, waveform_q>>

(* Conditions path: do_ro *)

W_CondRo ==
    /\ wpc = "cond"
    /\ \E w \in WriteAll :
        \E stream \in StreamsAfter(w, WorkerRoStreams) :
          LET r == send_ro(cap, wconfig.channel, w, stream)
          IN  /\ cap' = r.cap
              /\ wire' = Written("Ro", r.tx)
              /\ cycle' = Staged(cycle, "Ro", r.result)
    /\ wresp' = [wresp EXCEPT !.s1_result = TRUE, !.capture_conditions = "TODO"]
    /\ wpc' = "cond_send"
    /\ UNCHANGED <<last, foregroundVars, status_q, waveform_q, wconfig, werr, wunits>>

W_CondSend ==
    /\ wpc = "cond_send"
    /\ SendResponse(wresp)
    /\ BackToTop
    /\ UNCHANGED <<last, foregroundVars, status_q>>

Worker ==
    \/ W_Snapshot \/ W_Unlock \/ W_Spin \/ W_Nap \/ W_OpenPort \/ W_Dispatch
    \/ W_TestS1 \/ W_TestFailStatus \/ W_TestFailResponse
    \/ W_WfS1 \/ W_WfRo \/ W_WfUnits \/ W_WfRi \/ W_WfScale
    \/ W_WfSuccessStatus \/ W_WfSendResponse \/ W_WfBackoff
    \/ W_CondRo \/ W_CondSend

-----------------------------------------------------------------------------
(* The foreground.  One UI tick is UiBegin, up to the moment it holds     *)
(* config_mutex, and UiEnd, from there to the end of the frame.  Only what *)
(* reaches the configuration and the two channels is modelled.             *)

workerVars == <<wpc, wconfig, werr, wunits, wresp, cycle>>

\* the text shown for a status
StatusString(a) ==
    CASE a = "Idle" -> "Idle"
      [] a = "Ri" -> "Getting Waveform"
      [] a = "RiFail" -> "Failed to get Waveform"
      [] a = "RiSuccess" -> "Waveform captured"
      [] a = "S1" -> "Testing Connection"
      [] a = "RoFail" -> "Failed to get Measurement Conditions"
      [] a = "S1Fail" -> "Connection Failed"
      [] a = "S1Success" -> "Connection Successful"
      [] OTHER -> "undefined"

\* status_rx.try_recv(), the drawing, then config_mutex.lock()
UiBegin ==
    /\ uipc = "begin"
    /\ lockHolder = "none"
    /\ IF status_q # <<>>
       THEN /\ ui' = [ui EXCEPT !.status_string = StatusString(Head(status_q))]
            /\ status_q' = Tail(status_q)
       ELSE UNCHANGED <<ui, status_q>>
    /\ lockHolder' = "ui"
    /\ uipc' = "locked"
    /\ UNCHANGED <<capVars, config, waveform_q, workerVars>>

\* channels the Channel tab is given to choose from
UiChannels == {4}

\* what the user does in a tick: the open tab and at most one click in it
UiInputs ==
    {[tab |-> "Action", click |-> c] :
        c \in {"none", "test", "conditions", "waveform", "single", "stop"}}
    \cup {[tab |-> "Channel", pick |-> k] : k \in {0} \cup UiChannels}
    \cup {[tab |-> "Connection"]}

ModeOf(click) == CASE click = "test" -> 0 [] click = "conditions" -> 1 [] OTHER -> 2

\* the "Action" tab without the reset of the three command flags
ActionTab_no_clear(cc, u, click) ==
    LET disabled == cc.open_port \/ u.do_capture
        mode == IF ~disabled /\ click \in {"test", "conditions", "waveform"}
                THEN ModeOf(click) ELSE u.mode_radiobutton
        single == click = "single" /\ ~disabled /\ ~u.do_capture
        dc1 == single \/ u.do_capture
        stop == click = "stop" /\ dc1
        dc2 == ~stop /\ dc1
    IN  [ui |-> [u EXCEPT !.mode_radiobutton = mode, !.do_capture = dc2,
                          !.single_capture = single \/ u.single_capture],
         config |-> [cc EXCEPT !.do_ri = (mode = 2) \/ cc.do_ri,
                               !.do_ro = (mode = 1) \/ cc.do_ro,
                               !.do_s1 = (mode = 0) \/ cc.do_s1,
                               !.do_capture = dc2, !.open_port = dc2]]

\* the "Action" tab; widgets inside begin_disabled cannot be clicked
ActionTab(cc, u, click) ==
    LET disabled == cc.open_port \/ u.do_capture
        mode == IF ~disabled /\ click \in {"test", "conditions", "waveform"}
                THEN ModeOf(click) ELSE u.mode_radiobutton
        single == click = "single" /\ ~disabled /\ ~u.do_capture
        dc1 == single \/ u.do_capture
        stop == click = "stop" /\ dc1
        dc2 == ~stop /\ dc1
    IN  [ui |-> [u EXCEPT !.mode_radiobutton = mode, !.do_capture = dc2,
                          !.single_capture = single \/ u.single_capture],
         config |-> [cc EXCEPT !.do_ri = (mode = 2), !.do_ro = (mode = 1),
                               !.do_s1 = (mode = 0),
                               !.do_capture = dc2, !.open_port = dc2]]

\* the "Channel" tab
ChannelTab(cc, u, pick) ==
    LET channel == IF ~cc.open_port /\ pick # 0 THEN pick ELSE u.channel
    IN  [ui |-> [u EXCEPT !.channel = channel],
         config |-> [cc EXCEPT !.channel = channel]]

\* the window's input applied to the clone current_config
Edited(cc, u, in) ==
    CASE in.tab = "Action" -> ActionTab(cc, u, in.click)
      [] in.tab = "Channel" -> ChannelTab(cc, u, in.pick)
      [] OTHER -> [ui |-> u, config |-> cc]

\* waveform_rx.try_recv(): the foreground's locals after it.  The buffers
\* a result is copied into (waveform_buffer, time_per_div, voltage_per_div)
\* are only drawn from; the model keeps that a result has been taken over
Received(u, q) ==
    IF q = <<>> THEN u
    ELSE LET a == Head(q)
             u1 == IF Len(a.waveform_data) > 0
                   THEN [u EXCEPT !.have_waveform = TRUE]
                   ELSE u
         IN  IF u1.single_capture THEN [u1 EXCEPT !.do_capture = FALSE] ELSE u1

\* the "Capture Controls" window, built with the lock held; then
\* **mutex = current_config, the guard is dropped, and waveform_rx.try_recv()
UiEnd ==
    /\ uipc = "locked"
    /\ lockHolder = "ui"
    /\ \E in \in UiInputs :
        LET r == Edited(config, ui, in)
        IN  /\ config' = r.config
            /\ ui' = Received(r.ui, waveform_q)
    /\ waveform_q' = IF waveform_q = <<>> THEN waveform_q ELSE Tail(waveform_q)
    /\ lockHolder' = "none"
    /\ uipc' = "begin"
    /\ UNCHANGED <<capVars, status_q, workerVars>>

Foreground == UiBegin \/ UiEnd

Next == Worker \/ Foreground

Spec == Init /\ [][Next]_vars

-----------------------------------------------------------------------------
(* Properties of the worker's command cycles (Spec).  They read the        *)
(* history of the running loop iteration: wire, the commands handed to the *)
(* port, and cycle.stages, the outcome of each stage.                      *)

\* the kinds of the commands written since the port was opened
WireKinds == [i \in 1..Len(wire) |-> wire[i].kind]

IsPrefix(s, t) == Len(s) <= Len(t) /\ \A i \in 1..Len(s) : s[i] = t[i]

\* the outcome of a stage of the running iteration, "none" if it has not run
StageResult(stage) ==
    LET hits == {i \in 1..Len(cycle.stages) : cycle.stages[i].stage = stage}
    IN  IF hits = {} THEN "none" ELSE cycle.stages[CHOOSE i \in hits : TRUE].result

\* the stage of the running iteration that did not succeed, "none" if all did
FailedStage ==
    LET bad == {i \in 1..Len(cycle.stages) : cycle.stages[i].result # "Ok"}
    IN  IF bad = {} THEN "none"
        ELSE cycle.stages[CHOOSE i \in bad : \A j \in bad : i <= j].stage

ErrorKindOf(stage) == CASE stage = "S1" -> "S1Failure"
                        [] stage \in {"Ro", "units"} -> "RoError"
                        [] stage = "Ri" -> "RiError"
                        [] OTHER -> "none"

\* C2: a waveform cycle that failed carries the error kind of the stage that
\* failed: S1Failure for S1, RoError for Ro and for the condition record,
\* RiError for Ri.
C2_StageErrorKind ==
    (cycle.kind = "wave" /\ wpc = "wf_err") => werr = ErrorKindOf(FailedStage)

\* C3: the worker thread never panics, whatever the instrument answers and
\* whether or not the port could be opened.
C3_WorkerNeverPanics == wpc # "panicked"

\* C4: a waveform cycle that failed takes the back-off branch, which sends
\* exactly the status mapped from the error, sends no result and returns to
\* the top of the loop; and a waveform cycle writes S1 first.
C4_FailedCycleReportsOnce ==
    [][/\ (cycle'.kind = "wave" /\ FailedStage' # "none") => wpc' = "wf_err"
       /\ (wpc = "wf_err" /\ wpc' # "wf_err") =>
            /\ status_q' = Append(status_q, StatusOf(werr))
            /\ waveform_q' = waveform_q
            /\ wpc' = "top"
       /\ (cycle'.kind = "wave" /\ wire' # <<>>) => wire'[1].kind = "S1"]_vars

\* C5: the Test path writes nothing but S1, and when its iteration ends the
\* worker has sent something to the foreground, after a success as well as
\* after a failure.
C5_TestOutcomeReported ==
    [][/\ cycle'.kind = "test" => \A i \in 1..Len(wire') : wire'[i].kind = "S1"
       /\ (cycle.kind = "test" /\ wpc' = "top") =>
            \/ cycle.sent # <<>>
            \/ Len(status_q') > Len(status_q)
            \/ Len(waveform_q') > Len(waveform_q)]_vars

\* the response the Conditions path sends after a successful Ro
CondResponseAfterSuccess ==
    [EmptyResponse EXCEPT !.s1_result = TRUE, !.capture_conditions = "TODO"]

\* C6: in the Conditions path only Ro is written, and after a failed Ro what
\* the worker is about to send differs from what it sends after a successful
\* Ro and indicates the failure.
C6_CondFailureDistinct ==
    /\ cycle.kind = "cond" => \A i \in 1..Len(wire) : wire[i].kind = "Ro"
    /\ (wpc = "cond_send" /\ StageResult("Ro") # "Ok") =>
            /\ wresp # CondResponseAfterSuccess \/ cycle.sent # <<>>
            /\ ~wresp.s1_result \/ cycle.sent # <<>>

\* C7: a step of the worker that puts a result on the result channel during
\* a waveform cycle, or a result that carries samples, belongs to a cycle in
\* which S1, Ro, the unit parsing, Ri and the scaling all succeeded, and the
\* result carries the samples and both units.
C7_NoPartialSuccess ==
    [][(/\ Len(waveform_q') > Len(waveform_q)
        /\ \/ cycle.kind = "wave"
           \/ waveform_q'[Len(waveform_q')].waveform_data # <<>>) =>
            /\ cycle.kind = "wave"
            /\ \A st \in {"S1", "Ro", "units", "Ri", "scale"} : StageResult(st) = "Ok"
            /\ FailedStage = "none"
            /\ Len(waveform_q'[Len(waveform_q')].waveform_data) = ScaledLen
            /\ waveform_q'[Len(waveform_q')].voltage_per_div = Pair(wunits.voltage_unit)
            /\ waveform_q'[Len(waveform_q')].time_per_div = Pair(wunits.time_unit)]_vars

\* C7 witness: a result with the samples of a complete cycle is on the
\* result channel
C7_Witness ==
    /\ waveform_q # <<>>
    /\ Len(Head(waveform_q).waveform_data) = ScaledLen
    /\ Head(waveform_q).voltage_per_div.unit_name = <<109, 86>>
    /\ Head(waveform_q).time_per_div.unit_name = <<109, 115>>

\* C11: the samples of a result are the scaled bytes at positions 14 up to
\* end + 14 of the received frame: for the request (0, 1000), all of the
\* frame but its 14-byte header and its terminator.
C11_PayloadIsWholeFrame ==
    wpc = "wf_ok" =>
        LET payload == SubSeq(cap.response_data, HeaderLen + 1, CaptureEnd + HeaderLen)
            scaled == scale_waveform_data(payload, wunits.voltage_unit.value, 1)
        IN  /\ Len(payload) = CaptureEnd - CaptureStart
            /\ wresp.waveform_data = unit_scale(scaled.data, wunits.voltage_unit)

\* n as four decimal digits
FourDigits(n) ==
    <<48 + ((n \div 1000) % 10), 48 + ((n \div 100) % 10),
      48 + ((n \div 10) % 10), 48 + (n % 10)>>

\* the wire encoding of a command: "S1\r", "Ro(<d>)\r",
\* "R<d>(<start>,<end>,B)\r"
WireEncoding(kind, d, start, end) ==
    CASE kind = "S1" -> <<83, 49, 13>>
      [] kind = "Ro" -> <<82, 111, 40, 48 + d, 41, 13>>
      [] kind = "Ri" -> <<82, 48 + d, 40>> \o FourDigits(start) \o <<44>>
                            \o FourDigits(end) \o <<44, 66, 41, 13>>

\* C12: what is transmitted for a command is its wire encoding and nothing
\* else, whatever commands the same object sent before: every command of
\* the running iteration that was answered with success put exactly its
\* encoding on the wire.
C12_TransmitsEncoding ==
    \A i \in DOMAIN wire :
        StageResult(wire[i].kind) = "Ok" =>
            wire[i].bytes = WireEncoding(wire[i].kind, wconfig.channel, 0, 1000)

\* where the dispatch of a snapshot c leads
BranchOf(c) ==
    CASE c.do_capture /\ c.do_s1 -> "test"
      [] c.do_capture /\ ~c.do_s1 /\ c.do_ri -> "wf_s1"
      [] c.do_capture /\ ~c.do_s1 /\ ~c.do_ri /\ c.do_ro -> "cond"
      [] OTHER -> "top"

\* C18: the worker never writes the shared configuration and acts on a clone
\* of it: the shared value changes only when a foreground tick ends; the
\* clone is taken at the top of an iteration, with the lock free, and equals
\* the shared value of that moment; it stays as it is until the iteration
\* ends, and it alone decides whether and which command cycle runs.
C18_WorkerActsOnSnapshot ==
    [][/\ config' # config => (uipc = "locked" /\ uipc' = "begin")
       /\ (wpc = "top" /\ wpc' # "top") => (lockHolder = "none" /\ wconfig' = config)
       /\ (wpc # "top" /\ wpc' # "top") => wconfig' = wconfig
       /\ (wpc = "check" /\ wpc' # "check") =>
              (wpc' = "top") = ~wconfig.open_port
       /\ (wpc = "dispatch" /\ wpc' # "dispatch") => wpc' = BranchOf(wconfig)]_vars

\* C18 witness: a waveform cycle ran to its end after the foreground had
\* cleared the run flags of the shared configuration
C18_Witness ==
    /\ wpc = "wf_ok"
    /\ wconfig.do_capture /\ wconfig.open_port
    /\ ~config.do_capture /\ ~config.open_port

\* C19: status delivery is last-write-wins: when a foreground tick has taken
\* its statuses from the channel, the channel is drained and the status shown
\* is the most recent one the worker sent, however many were waiting.
C19_StatusLastWriteWins ==
    [][(uipc = "begin" /\ uipc' = "locked" /\ status_q # <<>>) =>
           /\ status_q' = <<>>
           /\ ui'.status_string = StatusString(status_q[Len(status_q)])]_vars

\* the sub-command flags of a configuration that are set
SubCommands(c) ==
    {f \in {"do_s1", "do_ro", "do_ri"} :
        CASE f = "do_s1" -> c.do_s1 [] f = "do_ro" -> c.do_ro [] f = "do_ri" -> c.do_ri}

\* C20: the shared configuration, and so every clone the worker takes of it,
\* has at most one of the flags do_s1, do_ro, do_ri set.
C20_OneSubCommand ==
    /\ Cardinality(SubCommands(config)) <= 1
    /\ Cardinality(SubCommands(wconfig)) <= 1

\* C20 witness: the mode was changed from the initial waveform mode to the
\* connection test and the worker runs the test on it
C20_Witness ==
    /\ wpc = "test"
    /\ SubCommands(wconfig) = {"do_s1"}
    /\ SubCommands(config) = {"do_s1"}

\* C24: send_ri returns success for every well-formed frame: one of exactly
\* (end_address - start_address) + 15 bytes that ends with the terminator,
\* whatever its sample bytes are.
C24_AcceptsEveryFrame ==
    (/\ last.op = "ri"
     /\ last.w.ok
     /\ last.start_address <= last.end_address
     /\ Len(last.stream.bytes) = (last.end_address - last.start_address) + 15
     /\ last.stream.bytes[Len(last.stream.bytes)] = 13) =>
        last.result = "Ok"

\* a result with samples, sent by a successful waveform cycle, waits in the
\* result channel while the single capture that was asked for in waveform
\* mode is still on in the foreground
SingleCaptureServed ==
    /\ ui.single_capture
    /\ ui.do_capture
    /\ ui.mode_radiobutton = 2
    /\ \E i \in DOMAIN waveform_q : Len(waveform_q[i].waveform_data) > 0

\* C25: a single capture runs one successful cycle: once the worker has sent
\* the result of a successful cycle for it, the worker does not open the
\* port and puts no command on the wire.
C25_SingleCaptureRunsOnce ==
    [][SingleCaptureServed =>
           /\ ~(wpc = "check" /\ wpc' \in {"dispatch", "panicked"})
           /\ wire' = wire \/ wire' = <<>>]_vars

\* The program with its scheduling: a tick that holds the lock runs to its
\* end, the worker's guard is dropped once the clone is made, and the worker,
\* which retries try_lock without pause, gets the lock that every tick frees.
SpecFair ==
    Spec /\ WF_vars(W_Unlock) /\ WF_vars(UiEnd) /\ SF_vars(W_Snapshot)

\* C26: the worker holds the lock of the configuration only while it clones
\* it, never while it opens the port, talks to the instrument, sleeps or
\* sends on a channel; a lock held by either thread is freed again, and the
\* worker at the top of its loop gets its clone.
C26_LockOnlyWhileCloning ==
    /\ [](lockHolder = "worker" => wpc = "cloned")
    /\ (lockHolder = "worker") ~> (lockHolder = "none")
    /\ (lockHolder = "ui") ~> (lockHolder = "none")
    /\ (wpc = "top") ~> (wpc = "cloned")

\* C26 witness: the foreground took the lock while a command cycle of the
\* worker was waiting for the instrument
C26_Witness ==
    /\ lockHolder = "ui"
    /\ uipc = "locked"
    /\ wpc = "wf_ri"
    /\ wire # <<>>

-----------------------------------------------------------------------------
(* Properties of the capture API (SpecS1, SpecRo, SpecRi) *)

\* C8: send_s1 returns Ok exactly when the write succeeded and the read up to
\* the terminator returned exactly 2 bytes of which the first is 0x41; every
\* other outcome is S1Failure, and no outcome indexes the response buffer out
\* of bounds.
C8_SendS1Contract ==
    last.op = "s1" =>
        LET r == read_until(13, last.stream)
            good == last.w.ok /\ r.ok /\ Len(r.data) = 2 /\ r.data[1] = 65
        IN  /\ (last.result = "Ok") <=> good
            /\ ~good => last.result = "S1Failure"
            /\ last.result # "Panic"

\* C8 witness: the response "A\r" was read and reported as success
C8_Witness ==
    /\ last.op = "s1"
    /\ last.w.ok
    /\ last.stream.bytes = <<65, 13>>
    /\ last.result = "Ok"

\* C9: send_ro returns Ok exactly when the write succeeded, exactly 68 bytes
\* were read up to the terminator and they are UTF-8; afterwards the stored
\* condition string is that frame on success and empty on an error.
C9_SendRoContract ==
    last.op = "ro" =>
        LET r == read_until(13, last.stream)
            good == last.w.ok /\ r.ok /\ Len(r.data) = 68 /\ Utf8Valid(r.data)
        IN  /\ (last.result = "Ok") <=> good
            /\ good => cap.cond_string = r.data
            /\ ~good => cap.cond_string = <<>>

\* C9 witness: a failed send_ro on an object that held a condition string
C9_Witness ==
    /\ last.op = "ro"
    /\ last.hadCond
    /\ last.result # "Ok"
    /\ cap.cond_string = <<>>

\* C10: send_ri(channel, start, end) with start <= end returns Ok exactly when
\* the write succeeded and exactly (end - start) + 15 bytes were read up to
\* the terminator; on success the response buffer holds the frame without its
\* last byte, (end - start) + 14 bytes; every other outcome is RiError.
C10_SendRiContract ==
    (last.op = "ri" /\ last.start_address <= last.end_address) =>
        LET r == read_until(13, last.stream)
            span == last.end_address - last.start_address
            good == last.w.ok /\ r.ok /\ Len(r.data) = span + 15
        IN  /\ (last.result = "Ok") <=> good
            /\ good => /\ Len(cap.response_data) = span + 14
                       /\ cap.response_data = SubSeq(r.data, 1, span + 14)
            /\ ~good => last.result = "RiError"

\* C10 witness: the capture cycle's request (0, 1000) answered by a full
\* frame, on an object whose response buffer was in use
C10_Witness ==
    /\ last.op = "ri"
    /\ last.hadData
    /\ last.end_address - last.start_address = 1000
    /\ last.result = "Ok"
    /\ Len(cap.response_data) = 1014

-----------------------------------------------------------------------------
(* Properties of the functions of processing.rs (SpecProcessing) *)

\* C13: scale_waveform_data returns as many elements as its input has, with
\* element i equal to -(raw[i] - 128) * (voltage_per_division / 25) *
\* scale_factor (kept in units of 1/2500, voltage_per_division in hundredths).
C13_ScaleKeepsLength ==
    last.op = "scale" =>
        /\ last.result.ok
        /\ Len(last.result.data) = Len(last.raw)
        /\ \A i \in 1..Len(last.raw) :
               last.result.data[i] =
                   (0 - (last.raw[i] - 128)) * last.voltage_per_division * last.scale_factor

\* the unit tokens with their multipliers
UnitTokens ==
    {[name |-> <<115>>, mult |-> 1], [name |-> <<86>>, mult |-> 1],
     [name |-> <<109, 115>>, mult |-> 1000], [name |-> <<109, 86>>, mult |-> 1000],
     [name |-> <<117, 115>>, mult |-> 1000000], [name |-> <<117, 86>>, mult |-> 1000000]}

\* t holds at i a literal of n bytes: 1 to 3 digits, or "0." and 1 to 2 digits
LiteralAt(t, i, n) ==
    \/ n \in 1..3 /\ DigitsAt(t, i, n)
    \/ n \in 3..4 /\ MatchesAt(t, i, <<48, 46>>) /\ DigitsAt(t, i + 2, n - 2)

\* the number a literal denotes, in hundredths
LiteralValue(v) ==
    IF Len(v) >= 2 /\ v[2] = 46
    THEN IF Len(v) = 3 THEN 10 * (v[3] - 48) ELSE 10 * (v[3] - 48) + (v[4] - 48)
    ELSE 100 * Num(v)

\* the literals of t that a unit token follows immediately
LiteralsWithUnit(t) ==
    {m \in [i : 1..Len(t), n : 1..4, unit : UnitTokens] :
        LiteralAt(t, m.i, m.n) /\ MatchesAt(t, m.i + m.n, m.unit.name)}

\* C14: parse_unit succeeds exactly on text that holds a literal followed by
\* a unit token; the value is then that literal, the unit name that token
\* and the multiplier the token's (1, 1e3 or 1e6, never 0).
C14_ParseUnitGrammar ==
    last.op = "parse_unit" =>
        /\ last.result.ok <=> LiteralsWithUnit(last.text) # {}
        /\ last.result.ok =>
               \E m \in LiteralsWithUnit(last.text) :
                   /\ last.result.value = LiteralValue(SubSeq(last.text, m.i, m.i + m.n - 1))
                   /\ last.result.unit_name = m.unit.name
                   /\ last.result.unit_mult = m.unit.mult
                   /\ last.result.unit_mult # 0

\* C15: get_scale_units fails, without a panic, on a condition string of
\* fewer than 12 fields or whose field 3 holds no unit; on every other string
\* it returns the units parsed from fields 3 and 7.
C15_ScaleUnitsTotal ==
    last.op = "get_scale_units" =>
        LET segments == Split(last.condition_string, 44)
            rejected == Len(segments) < 12 \/ ~parse_unit(segments[4]).ok
        IN  /\ last.result.result # "Panic"
            /\ rejected => last.result.result = "Err"
            /\ ~rejected => /\ last.result.result = "Ok"
                            /\ last.result.time_unit = parse_unit(segments[4])
                            /\ last.result.voltage_unit = parse_unit(segments[8])
                            /\ last.result.voltage_unit.ok

\* C16: each of the five kernels, given at least 2 samples, a step of at
\* least 1 and a target count of at least 1009, returns exactly the target
\* count of elements and does not panic.
C16_KernelLength ==
    (/\ last.op = "interpolate"
     /\ last.len >= 2
     /\ last.step >= 1
     /\ last.num_samples >= 1009) =>
        /\ last.result.ok
        /\ Len(last.result.data) = last.num_samples

\* C17: moving_average_filter with 1 <= window_size <= len(samples) returns
\* exactly len(samples) elements, for odd and for even window sizes.
C17_FilterKeepsLength ==
    (/\ last.op = "moving_average"
     /\ 1 <= last.window_size
     /\ last.window_size <= Len(last.samples)) =>
        /\ last.result.ok
        /\ Len(last.result.data) = Len(last.samples)

\* C21: for a target count N of at least 9, every kernel returns the samples
\* of the query indices 4, 5, ..., N - 5 in that order, position j (from 0)
\* holding query index j + 4, and after them the last sampled value repeated
\* up to N elements; nothing is padded in front.
C21_QueryOrderThenPadding ==
    (/\ last.op = "interpolate"
     /\ last.len >= 2
     /\ last.step >= 1
     /\ last.num_samples >= 9) =>
        /\ last.result.ok
        /\ last.result.data =
               [j \in 1..last.num_samples |->
                    IF j <= last.num_samples - 8 THEN j + 3 ELSE last.num_samples - 5]

\* C22: the control points of every kernel come from the source indices 0,
\* step, 2 * step, ... and the one from source index i has the timestamp
\* (time_per_divison / 100) * i (kept in hundredths of time_per_divison).
C22_ControlPoints ==
    (/\ last.op = "interpolate"
     /\ last.len >= 2
     /\ last.step >= 1) =>
        last.result.keys =
            [j \in 1..(((last.len - 1) \div last.step) + 1) |->
                [src |-> (j - 1) * last.step,
                 t |-> last.time_per_divison * ((j - 1) * last.step)]]

\* the sum of s[a..b]
RECURSIVE SumOf(_, _, _)
SumOf(s, a, b) == IF a > b THEN 0 ELSE s[a] + SumOf(s, a + 1, b)

\* C23: every value moving_average_filter emits, before the padding, is the
\* mean of window_size consecutive input samples (the result keeps the sums:
\* an element stands for itself divided by window_size); the emitted values
\* stand behind the window_size \div 2 elements padded in front.
C23_FullWindowMean ==
    (/\ last.op = "moving_average"
     /\ 1 <= last.window_size
     /\ last.window_size <= Len(last.samples)) =>
        LET n == Len(last.samples)
            w == last.window_size
        IN  /\ last.result.ok
            /\ \A k \in 1..(n - w + 1) :
                   \E a \in 1..(n - w + 1) :
                       last.result.data[(w \div 2) + k] = SumOf(last.samples, a, a + w - 1)

=============================================================================
